---- MODULE Spec2Model ----
(***************************************************************************)
(* The error taxonomy and boundary-translation pipeline of the backend:    *)
(* the shared code registry and Problem Details schema, the service-local  *)
(* error catalog, toProblem, mapDomainError and the global                 *)
(* ProblemExceptionFilter, as written in docs/how-to-guides/               *)
(* create-an-error.md.                                                     *)
(*                                                                         *)
(* JavaScript values are tagged records [k |-> kind, v |-> payload]; the   *)
(* kind decides the type of the payload, so any two values compare.        *)
(***************************************************************************)
EXTENDS Integers, Sequences, FiniteSets, TLC

VARIABLES
    req,        \* per slot: the failed request being handled (phase, exception, header, url)
    replies,    \* per slot: what httpAdapter.reply was called with, in order
    resolved,   \* per slot: the catalog metadata mapDomainError looked up (undefined off the domain path)
    escaped,    \* per slot: TRUE when the filter itself threw while handling the request
    parsed,     \* the last call of parseProblemDetails: its argument and its outcome
    catalog,    \* the contents of the ErrorCatalog object of the process
    registry,   \* the contents of the ErrorCodes object of the process
    previous,   \* per slot: the replies of the earlier translation of the same failure, if any
    ui,         \* what the consumer handed on to the UI for the payload it parsed
    listed,     \* the last call of ClientController.listClients: the entities and the response
    built       \* the last call of toProblem: its argument, its result, and toProblem of the result

vars == <<req, replies, resolved, escaped, parsed, catalog, registry, previous, ui,
          listed, built>>

(***************************************************************************)
(* JavaScript values                                                       *)
(***************************************************************************)
Undefined == [k |-> "undefined", v |-> ""]
Null      == [k |-> "null", v |-> ""]
Str(s)    == [k |-> "string", v |-> s]
IntV(n)   == [k |-> "int", v |-> n]          \* a number that is an integer
Float(s)  == [k |-> "float", v |-> s]        \* a number that is not an integer (its text)
Bool(b)   == [k |-> "boolean", v |-> b]
Arr(q)    == [k |-> "array", v |-> q]        \* q: a sequence of values
Obj(f)    == [k |-> "object", v |-> f]       \* f: own enumerable properties, name -> value
Fn(name)  == [k |-> "function", v |-> name]  \* a function object, no own enumerable property

NoProps == [p \in {} |-> Undefined]

\* typeof x
TypeOf(x) ==
    CASE x.k = "undefined" -> "undefined"
      [] x.k = "string"    -> "string"
      [] x.k \in {"int", "float"} -> "number"
      [] x.k = "boolean"   -> "boolean"
      [] x.k = "function"  -> "function"
      [] OTHER             -> "object"       \* null, arrays and objects

\* x is null or undefined (what ?? and ?. test)
Nullish(x) == x.k \in {"undefined", "null"}

\* ToBoolean(x) (what ||, && and if test)
Truthy(x) ==
    CASE x.k \in {"undefined", "null"} -> FALSE
      [] x.k = "string"  -> x.v # ""
      [] x.k = "int"     -> x.v # 0
      [] x.k = "float"   -> x.v # "NaN"
      [] x.k = "boolean" -> x.v
      [] OTHER           -> TRUE

\* a ?? b
Coalesce(a, b) == IF Nullish(a) THEN b ELSE a

\* The properties every plain object inherits from Object.prototype.
ObjectPrototype ==
    [constructor |-> Fn("Object"), toString |-> Fn("toString"), valueOf |-> Fn("valueOf"),
     hasOwnProperty |-> Fn("hasOwnProperty")]

\* o[p] for a non-nullish o: an own property, else an inherited one, else undefined.
Prop(o, p) ==
    IF o.k = "object" /\ p \in DOMAIN o.v THEN o.v[p]
    ELSE IF o.k = "function" /\ p = "name" THEN Str(o.v)
    ELSE IF o.k \in {"object", "function", "array"} /\ p \in DOMAIN ObjectPrototype
         THEN ObjectPrototype[p]
    ELSE Undefined

\* The abrupt completion of an expression that throws a TypeError.
TypeError == [k |-> "throw", v |-> "TypeError"]
IsThrow(x) == x.k = "throw"

\* o.p and o[p]: a TypeError when o is null or undefined.
Member(o, p) == IF IsThrow(o) THEN o ELSE IF Nullish(o) THEN TypeError ELSE Prop(o, p)

\* Mutant of OptMember: the ?. written as a plain member access.
OptMember_plain(o, p) == Member(o, p)

\* o?.p: undefined when o is null or undefined.
OptMember(o, p) == IF IsThrow(o) THEN o ELSE IF Nullish(o) THEN Undefined ELSE Prop(o, p)

\* { ...o }: the own enumerable properties of o (none for a function, null or undefined).
Spread(o) == IF o.k = "object" THEN o.v ELSE NoProps

\* What JSON.stringify keeps of an object: the properties that are not undefined.
Defined(o) == Obj([p \in {q \in DOMAIN o.v : o.v[q] # Undefined} |-> o.v[p]])

(***************************************************************************)
(* packages/shared/errors/error-codes.ts                                   *)
(***************************************************************************)
ErrorCodes ==
    [PRODUCT_NOT_FOUND |-> "PRODUCT_NOT_FOUND",
     VALIDATION_FAILED |-> "VALIDATION_FAILED",
     INTERNAL_ERROR |-> "INTERNAL_ERROR",
     AUTH_INVALID_CREDENTIALS |-> "AUTH_INVALID_CREDENTIALS"]

(***************************************************************************)
(* apps/backend/src/errors/http/error-catalog.ts                           *)
(***************************************************************************)
ErrorCatalog ==
    (ErrorCodes.PRODUCT_NOT_FOUND :>
        Obj([status |-> IntV(404), title |-> Str("Product not found"),
             type |-> Str("/catalog/products/not-found")]))
    @@ (ErrorCodes.VALIDATION_FAILED :>
        Obj([status |-> IntV(400), title |-> Str("Invalid input"),
             type |-> Str("/catalog/validation/failed")]))
    @@ (ErrorCodes.INTERNAL_ERROR :>
        Obj([status |-> IntV(500), title |-> Str("Internal Server Error"),
             type |-> Str("/catalog/internal")]))

\* ErrorCatalog[code]: the catalog is a plain object literal.
CatalogMember(code) == Prop(Obj(ErrorCatalog), code)

\* Mutant of resolve: the fallback reads the wrong catalog key.
resolve_wrongFallback(code) ==
    Coalesce(CatalogMember(code), CatalogMember("VALIDATION_FAILED"))

\* ErrorCatalog[e.code] ?? ErrorCatalog.INTERNAL_ERROR
resolve(code) == Coalesce(CatalogMember(code), CatalogMember("INTERNAL_ERROR"))

(***************************************************************************)
(* apps/backend/src/errors/http/problem-details.ts                         *)
(***************************************************************************)
\* Mutant of toProblem: || in place of ??, so a supplied falsy value gets the default.
toProblem_or(p) ==
    LET Or(a, b) == IF Truthy(a) THEN a ELSE b
    IN  Obj([type      |-> Or(Prop(p, "type"), Str("/catalog/internal")),
             title     |-> Or(Prop(p, "title"), Str("Internal Server Error")),
             status    |-> Or(Prop(p, "status"), IntV(500)),
             code      |-> Or(Prop(p, "code"), Str("INTERNAL_ERROR")),
             detail    |-> Prop(p, "detail"),
             context   |-> Prop(p, "context"),
             instance  |-> Prop(p, "instance"),
             requestId |-> Or(Prop(p, "requestId"), Str("unknown")),
             retryable |-> Or(Prop(p, "retryable"), Bool(FALSE))])

\* Mutant of toProblem: retryable is copied without its default.
toProblem_noRetryableDefault(p) ==
    Obj([type      |-> Coalesce(Prop(p, "type"), Str("/catalog/internal")),
         title     |-> Coalesce(Prop(p, "title"), Str("Internal Server Error")),
         status    |-> Coalesce(Prop(p, "status"), IntV(500)),
         code      |-> Coalesce(Prop(p, "code"), Str("INTERNAL_ERROR")),
         detail    |-> Prop(p, "detail"),
         context   |-> Prop(p, "context"),
         instance  |-> Prop(p, "instance"),
         requestId |-> Coalesce(Prop(p, "requestId"), Str("unknown")),
         retryable |-> Prop(p, "retryable")])

toProblem(p) ==
    Obj([type      |-> Coalesce(Prop(p, "type"), Str("/catalog/internal")),
         title     |-> Coalesce(Prop(p, "title"), Str("Internal Server Error")),
         status    |-> Coalesce(Prop(p, "status"), IntV(500)),
         code      |-> Coalesce(Prop(p, "code"), Str("INTERNAL_ERROR")),
         detail    |-> Prop(p, "detail"),
         context   |-> Prop(p, "context"),
         instance  |-> Prop(p, "instance"),
         requestId |-> Coalesce(Prop(p, "requestId"), Str("unknown")),
         retryable |-> Coalesce(Prop(p, "retryable"), Bool(FALSE))])

(***************************************************************************)
(* apps/backend/src/errors/http/domain-to-problem.mapper.ts                *)
(***************************************************************************)
\* Mutant of mapDomainError: the catalog metadata is not spread into the envelope.
mapDomainError_noMeta(e, reqId, instance) ==
    toProblem(Obj([code      |-> Member(e, "code"),
                   detail    |-> Member(e, "message"),
                   context   |-> Member(e, "context"),
                   requestId |-> reqId,
                   instance  |-> instance]))

\* Mutant of mapDomainError: the context is not handed to the envelope.
mapDomainError_noContext(e, reqId, instance) ==
    LET meta == resolve(Member(e, "code").v)
    IN  toProblem(Obj([code      |-> Member(e, "code"),
                       detail    |-> Member(e, "message"),
                       requestId |-> reqId,
                       instance  |-> instance] @@ Spread(meta)))

mapDomainError(e, reqId, instance) ==
    LET meta == resolve(Member(e, "code").v)
    IN  toProblem(Obj([code      |-> Member(e, "code"),
                       detail    |-> Member(e, "message"),
                       context   |-> Member(e, "context"),
                       requestId |-> reqId,
                       instance  |-> instance] @@ Spread(meta)))

(***************************************************************************)
(* apps/backend/src/errors/http/problem.exception-filter.ts                *)
(***************************************************************************)
\* Mutant of RequestIdOf: a new identifier for every translation, whatever the header.
RequestIdOf_alwaysFresh(request, uuid) == uuid

\* Mutant of RequestIdOf: ?? in place of ||, so an empty header is kept.
RequestIdOf_nullish(request, uuid) == Coalesce(request.xRequestId, uuid)

\* const requestId = (request.headers['x-request-id'] as string) || crypto.randomUUID()
RequestIdOf(request, uuid) == IF Truthy(request.xRequestId) THEN request.xRequestId ELSE uuid

\* Mutant of IsCoded: only the typeof test, so an empty string passes.
IsCoded_typeofOnly(exception) == TypeOf(OptMember(exception, "code")) = "string"

\* if (exception?.code && typeof exception.code === 'string')
IsCoded(exception) ==
    /\ Truthy(OptMember(exception, "code"))
    /\ TypeOf(Member(exception, "code")) = "string"

\* Mutant of IsValidation: the name alone decides.
IsValidation_nameOnly(exception) == OptMember(exception, "name") = Str("BadRequestException")

\* if (exception?.name === 'BadRequestException' && exception['response']?.message)
IsValidation(exception) ==
    /\ OptMember(exception, "name") = Str("BadRequestException")
    /\ Truthy(OptMember(Member(exception, "response"), "message"))

\* The expressions of catch whose evaluation can throw, in the order catch evaluates them.
CatchThrows(exception) ==
    \/ IsThrow(OptMember(exception, "code"))
    \/ /\ Truthy(OptMember(exception, "code"))
       /\ IsThrow(Member(exception, "code"))
    \/ /\ ~IsCoded(exception)
       /\ \/ IsThrow(OptMember(exception, "name"))
          \/ /\ OptMember(exception, "name") = Str("BadRequestException")
             /\ IsThrow(OptMember(Member(exception, "response"), "message"))

\* Mutant of ValidationProblem: the instance is left out.
ValidationProblem_noInstance(exception, requestId, instance) ==
    Obj([type      |-> Str("/catalog/validation/failed"),
         title     |-> Str("Invalid input"),
         status    |-> IntV(400),
         code      |-> Str("VALIDATION_FAILED"),
         detail    |-> Str("One or more fields are invalid."),
         context   |-> Obj([fields |-> Member(Member(exception, "response"), "message")]),
         requestId |-> requestId,
         retryable |-> Bool(FALSE)])

\* Mutant of ValidationProblem: the fields are read from the exception's own message.
ValidationProblem_ownMessage(exception, requestId, instance) ==
    Obj([type      |-> Str("/catalog/validation/failed"),
         title     |-> Str("Invalid input"),
         status    |-> IntV(400),
         code      |-> Str("VALIDATION_FAILED"),
         detail    |-> Str("One or more fields are invalid."),
         context   |-> Obj([fields |-> Member(exception, "message")]),
         requestId |-> requestId,
         instance  |-> instance,
         retryable |-> Bool(FALSE)])

\* Mutant of ValidationProblem: the literal drifts from the catalog (422 for 400).
ValidationProblem_unprocessable(exception, requestId, instance) ==
    Obj([type      |-> Str("/catalog/validation/failed"),
         title     |-> Str("Invalid input"),
         status    |-> IntV(422),
         code      |-> Str("VALIDATION_FAILED"),
         detail    |-> Str("One or more fields are invalid."),
         context   |-> Obj([fields |-> Member(Member(exception, "response"), "message")]),
         requestId |-> requestId,
         instance  |-> instance,
         retryable |-> Bool(FALSE)])

\* The problem literal of the validation branch
ValidationProblem(exception, requestId, instance) ==
    Obj([type      |-> Str("/catalog/validation/failed"),
         title     |-> Str("Invalid input"),
         status    |-> IntV(400),
         code      |-> Str("VALIDATION_FAILED"),
         detail    |-> Str("One or more fields are invalid."),
         context   |-> Obj([fields |-> Member(Member(exception, "response"), "message")]),
         requestId |-> requestId,
         instance  |-> instance,
         retryable |-> Bool(FALSE)])

\* The problem literal of the last branch
InternalProblem(requestId, instance) ==
    Obj([type      |-> Str("/catalog/internal"),
         title     |-> Str("Internal Server Error"),
         status    |-> IntV(500),
         code      |-> Str("INTERNAL_ERROR"),
         detail    |-> Str("An unexpected error occurred."),
         requestId |-> requestId,
         instance  |-> instance,
         retryable |-> Bool(FALSE)])

\* One call of httpAdapter.reply(response, body, status)
Reply(body, status) == [body |-> body, status |-> status]

\* Mutant of catch: the domain branch lacks its return and falls through.
catch_noReturn(exception, request, uuid) ==
    LET requestId == RequestIdOf(request, uuid)
        instance  == request.url
        domain    == IF IsCoded(exception)
                     THEN LET problem == mapDomainError(exception, requestId, instance)
                          IN  <<Reply(problem, Member(problem, "status"))>>
                     ELSE <<>>
    IN  IF CatchThrows(exception) THEN <<>>
        ELSE IF IsValidation(exception)
        THEN domain \o <<Reply(ValidationProblem(exception, requestId, instance), IntV(400))>>
        ELSE domain \o <<Reply(InternalProblem(requestId, instance), IntV(500))>>

\* Mutant of catch: the last branch copies the failure's message into detail.
catch_leaksMessage(exception, request, uuid) ==
    LET requestId == RequestIdOf(request, uuid)
        instance  == request.url
    IN  IF CatchThrows(exception) THEN <<>>
        ELSE IF IsCoded(exception)
        THEN LET problem == mapDomainError(exception, requestId, instance)
             IN  <<Reply(problem, Member(problem, "status"))>>
        ELSE IF IsValidation(exception)
        THEN <<Reply(ValidationProblem(exception, requestId, instance), IntV(400))>>
        ELSE <<Reply(Obj([detail |-> OptMember(exception, "message")]
                         @@ InternalProblem(requestId, instance).v), IntV(500))>>

\* Mutant of catch: the validation branch is tried before the domain branch.
catch_validationFirst(exception, request, uuid) ==
    LET requestId == RequestIdOf(request, uuid)
        instance  == request.url
    IN  IF CatchThrows(exception) THEN <<>>
        ELSE IF IsValidation(exception)
        THEN <<Reply(ValidationProblem(exception, requestId, instance), IntV(400))>>
        ELSE IF IsCoded(exception)
        THEN LET problem == mapDomainError(exception, requestId, instance)
             IN  <<Reply(problem, Member(problem, "status"))>>
        ELSE <<Reply(InternalProblem(requestId, instance), IntV(500))>>

\* Mutant of catch: the domain branch replies with a fixed transport status.
catch_fixedStatus(exception, request, uuid) ==
    LET requestId == RequestIdOf(request, uuid)
        instance  == request.url
    IN  IF CatchThrows(exception) THEN <<>>
        ELSE IF IsCoded(exception)
        THEN <<Reply(mapDomainError(exception, requestId, instance), IntV(500))>>
        ELSE IF IsValidation(exception)
        THEN <<Reply(ValidationProblem(exception, requestId, instance), IntV(400))>>
        ELSE <<Reply(InternalProblem(requestId, instance), IntV(500))>>

\* catch(exception, host): the calls of httpAdapter.reply it makes, in order (none when
\* it throws). uuid is what crypto.randomUUID() returns if it is called.
catch(exception, request, uuid) ==
    LET requestId == RequestIdOf(request, uuid)
        instance  == request.url
    IN  IF CatchThrows(exception) THEN <<>>
        ELSE IF IsCoded(exception)
        THEN LET problem == mapDomainError(exception, requestId, instance)
             IN  <<Reply(problem, Member(problem, "status"))>>
        ELSE IF IsValidation(exception)
        THEN <<Reply(ValidationProblem(exception, requestId, instance), IntV(400))>>
        ELSE <<Reply(InternalProblem(requestId, instance), IntV(500))>>

(***************************************************************************)
(* packages/shared/errors/problem-details.type.ts                          *)
(***************************************************************************)
\* The strings of the model that begin with '/' (z.string().startsWith('/')).
SlashStrings ==
    {"/catalog/internal", "/catalog/validation/failed", "/catalog/products/not-found",
     "/products/abc", "/clients"}

\* The strings of the model that new URL(s) accepts (z.string().url()).
UrlStrings ==
    {"https://errors.example.com/" \o ErrorCodes[k] : k \in DOMAIN ErrorCodes} \cup {"about:blank"}

\* z.string()
ZString(x) == x.k = "string"

\* z.string().url().or(z.string().startsWith('/'))
ZType(x) == ZString(x) /\ (x.v \in UrlStrings \/ x.v \in SlashStrings)

\* Mutant of ZInt: z.number() without .int()
ZInt_anyNumber(x) == x.k \in {"int", "float"}

\* z.number().int()
ZInt(x) == x.k = "int"

\* z.boolean()
ZBoolean(x) == x.k = "boolean"

\* z.record(z.unknown()): a plain object, whatever its values
ZRecord(x) == x.k = "object"

\* s.optional(): undefined, or what s accepts
ZOptional(x, accepted) == x.k = "undefined" \/ accepted

\* Mutant of ProblemDetailsSchema: requestId is optional.
ProblemDetailsSchema_optionalRequestId(data) ==
    /\ data.k = "object"
    /\ ZType(Prop(data, "type"))
    /\ ZString(Prop(data, "title"))
    /\ ZInt(Prop(data, "status"))
    /\ ZString(Prop(data, "code"))
    /\ ZOptional(Prop(data, "detail"), ZString(Prop(data, "detail")))
    /\ ZOptional(Prop(data, "context"), ZRecord(Prop(data, "context")))
    /\ ZOptional(Prop(data, "instance"), ZString(Prop(data, "instance")))
    /\ ZOptional(Prop(data, "requestId"), ZString(Prop(data, "requestId")))
    /\ ZOptional(Prop(data, "retryable"), ZBoolean(Prop(data, "retryable")))

\* ProblemDetailsSchema accepts data
ProblemDetailsSchema(data) ==
    /\ data.k = "object"
    /\ ZType(Prop(data, "type"))
    /\ ZString(Prop(data, "title"))
    /\ ZInt(Prop(data, "status"))
    /\ ZString(Prop(data, "code"))
    /\ ZOptional(Prop(data, "detail"), ZString(Prop(data, "detail")))
    /\ ZOptional(Prop(data, "context"), ZRecord(Prop(data, "context")))
    /\ ZOptional(Prop(data, "instance"), ZString(Prop(data, "instance")))
    /\ ZString(Prop(data, "requestId"))
    /\ ZOptional(Prop(data, "retryable"), ZBoolean(Prop(data, "retryable")))

\* The keys of the schema: z.object strips every other key from what it returns.
SchemaKeys ==
    {"type", "title", "status", "code", "detail", "context", "instance", "requestId",
     "retryable"}

\* Mutant of parseProblemDetails: the payload is cast, not parsed (data as ProblemDetails).
parseProblemDetails_cast(data) == [ok |-> TRUE, value |-> data]

\* parseProblemDetails(data): the parsed value, or the ZodError it throws.
parseProblemDetails(data) ==
    IF ProblemDetailsSchema(data)
    THEN [ok |-> TRUE, value |-> Obj([p \in DOMAIN data.v \cap SchemaKeys |-> data.v[p]])]
    ELSE [ok |-> FALSE, value |-> Str("ZodError")]

(***************************************************************************)
(* The failures a request can raise, and the requests                      *)
(***************************************************************************)
\* The longest list of offending fields a validation failure reports.
MaxFields == 2

MsgProductNotFound == "Product not found."
MsgInternals == "connect ECONNREFUSED 10.0.0.5:5432 (user=app password=hunter2)"
StackText == "Error\n    at ProductService.getById (/app/src/product/product.service.ts:7:24)"

(***************************************************************************)
(* apps/backend/src/product/errors/product.errors.ts                       *)
(***************************************************************************)
ProductErrorCodes == [PRODUCT_NOT_FOUND |-> ErrorCodes.PRODUCT_NOT_FOUND]

\* new <a subclass of ProductDomainError>(message, code, context): an Error with the
\* two readonly parameter properties.
ProductDomainError(message, code, context) ==
    Defined(Obj([name |-> Str("Error"), message |-> Str(message), stack |-> Str(StackText),
                 code |-> Str(code), context |-> context]))

\* new ProductNotFoundError(productId)
ProductNotFoundError(productId) ==
    ProductDomainError(MsgProductNotFound, ProductErrorCodes.PRODUCT_NOT_FOUND,
                       Obj([productId |-> Str(productId)]))

\* The ids business logic looks products up by.
ProductIds == {"abc"}

\* The domain errors business logic raises.
DomainErrors == {ProductNotFoundError(id) : id \in ProductIds}

\* What the code property of a thrown value can hold.
CodeValues ==
    {Undefined, Null, Str(""), IntV(23505), Obj([sqlState |-> Str("23505")]),
     Str("PRODUCT_NOT_FOUND"), Str("VALIDATION_FAILED"), Str("INTERNAL_ERROR"),
     Str("AUTH_INVALID_CREDENTIALS"), Str("NOT_IN_REGISTRY"), Str("constructor")}

MessageValues == {Undefined, Str(MsgProductNotFound), Str(MsgInternals)}

ContextValues == {Undefined, Obj([productId |-> Str("abc")]), Null, Str("ctx")}

NameValues == {Str("Error"), Str("BadRequestException")}

\* The constraint messages class-validator reports.
FieldMessages == {"name must be a string", "id must be a UUID"}

FieldLists == UNION {[1..n -> {Str(m) : m \in FieldMessages}] : n \in 0..MaxFields}

\* response.message of an HttpException: absent, a string, or the list of a ValidationPipe.
ResponseMessages == {Undefined, Str(""), Str("Bad Request")} \cup {Arr(q) : q \in FieldLists}

\* exception.response: absent, a string, or the object Nest builds.
ResponseValues ==
    {Undefined, Str("Bad Request")}
    \cup {Defined(Obj([message |-> m, error |-> Str("Bad Request"), statusCode |-> IntV(400)])) :
             m \in ResponseMessages}

\* The objects that can be thrown: errors of any class and plain objects.
ThrownObjects ==
    {Defined(Obj([name |-> n, message |-> m, stack |-> Str(StackText), code |-> c,
                  context |-> x, response |-> r])) :
        n \in NameValues, m \in MessageValues, c \in CodeValues, x \in ContextValues,
        r \in ResponseValues}

\* Anything can be thrown: primitives, null, undefined and functions too.
Failures ==
    ThrownObjects
    \cup {Undefined, Null, Str("boom"), IntV(0), IntV(42), Bool(FALSE), Fn("BadRequestException")}

\* request.headers['x-request-id']: absent, empty, or the caller's correlation id.
HeaderValues == {Undefined, Str(""), Str("req-1")}

\* request.url
Urls == {Str("/products/abc"), Str("/clients")}

\* What crypto.randomUUID() can return.
UUIDs == {Str("3f2b6c1e-0000-4000-8000-000000000001"), Str("3f2b6c1e-0000-4000-8000-000000000002")}

Requests == [xRequestId : HeaderValues, url : Urls]

\* The requests in flight are held in slots; Spec handles one request at a time.
AllSlots == {"r1", "r2"}
Slots == {"r1"}

NoRequest == [xRequestId |-> Undefined, url |-> Str("")]
Idle == [phase |-> "idle", exception |-> Undefined, request |-> NoRequest]
NotParsed == [data |-> Undefined, result |-> [ok |-> FALSE, value |-> Undefined]]
NotDelivered == [kind |-> "none", envelope |-> Undefined]
NotListed == [clientEntities |-> Undefined, response |-> Undefined]
NotBuilt == [p |-> Undefined, problem |-> Undefined, again |-> Undefined]

\* Mutant of CatalogAfterTranslate: the fallback is memoised into the catalog
\* (ErrorCatalog[e.code] ??= ErrorCatalog.INTERNAL_ERROR).
CatalogAfterTranslate_memoize(cat, exception) ==
    IF IsCoded(exception) /\ Member(exception, "code").v \notin DOMAIN cat
    THEN cat @@ (Member(exception, "code").v :> cat["INTERNAL_ERROR"])
    ELSE cat

\* What a translation leaves in the catalog: mapDomainError and catch only read it.
CatalogAfterTranslate(cat, exception) == cat

Init ==
    /\ req = [s \in AllSlots |-> Idle]
    /\ replies = [s \in AllSlots |-> <<>>]
    /\ resolved = [s \in AllSlots |-> Undefined]
    /\ escaped = [s \in AllSlots |-> FALSE]
    /\ parsed = NotParsed
    /\ catalog = ErrorCatalog
    /\ registry = ErrorCodes
    /\ previous = [s \in AllSlots |-> <<>>]
    /\ ui = NotDelivered
    /\ listed = NotListed
    /\ built = NotBuilt

\* Business logic (or anything under the controller) throws while serving a request.
Throw(s) ==
    /\ req[s].phase = "idle"
    /\ \E exception \in Failures, request \in Requests :
           req' = [req EXCEPT ![s] = [phase |-> "thrown", exception |-> exception,
                                      request |-> request]]
    /\ UNCHANGED <<replies, resolved, escaped, parsed, catalog, registry, previous, ui, listed, built>>

\* Mutant of FilterCatch: the filter, one instance for the whole process, keeps the
\* request in a field of its own, so catch can read the request of another call in flight.
FilterCatch_sharedRequest(s) ==
    /\ req[s].phase = "thrown"
    /\ \E t \in AllSlots :
           /\ req[t].phase # "idle"
           /\ \E uuid \in UUIDs :
                  replies' = [replies EXCEPT ![s] = catch(req[s].exception, req[t].request, uuid)]
    /\ escaped' = [escaped EXCEPT ![s] = CatchThrows(req[s].exception)]
    /\ resolved' = [resolved EXCEPT ![s] =
           IF ~CatchThrows(req[s].exception) /\ IsCoded(req[s].exception)
           THEN resolve(Member(req[s].exception, "code").v) ELSE Undefined]
    /\ req' = [req EXCEPT ![s].phase = "replied"]
    /\ catalog' = CatalogAfterTranslate(catalog, req[s].exception)
    /\ UNCHANGED <<parsed, registry, previous, ui, listed, built>>

\* Nest hands the exception to ProblemExceptionFilter.catch, which runs to its end.
FilterCatch(s) ==
    /\ req[s].phase = "thrown"
    /\ LET exception == req[s].exception
       IN  /\ \E uuid \in UUIDs :
                  replies' = [replies EXCEPT ![s] = catch(exception, req[s].request, uuid)]
           /\ escaped' = [escaped EXCEPT ![s] = CatchThrows(exception)]
           /\ resolved' = [resolved EXCEPT ![s] =
                  IF ~CatchThrows(exception) /\ IsCoded(exception)
                  THEN resolve(Member(exception, "code").v) ELSE Undefined]
    /\ req' = [req EXCEPT ![s].phase = "replied"]
    /\ catalog' = CatalogAfterTranslate(catalog, req[s].exception)
    /\ UNCHANGED <<parsed, registry, previous, ui, listed, built>>

\* JSON.stringify then JSON.parse of a reply body: properties that are undefined are dropped.
Wire(body) == Defined(body)

\* The consumer (BFF) receives the reply of slot s and parses it.
Receive(s) ==
    /\ req[s].phase = "replied"
    /\ Len(replies[s]) > 0
    /\ parsed' = [data |-> Wire(replies[s][1].body),
                  result |-> parseProblemDetails(Wire(replies[s][1].body))]
    /\ req' = [req EXCEPT ![s].phase = "received"]
    /\ UNCHANGED <<replies, resolved, escaped, catalog, registry, previous, ui, listed, built>>

\* The request is over.
Finish(s) ==
    /\ req[s].phase \in {"replied", "received", "forwarded"}
    /\ req' = [req EXCEPT ![s] = Idle]
    /\ replies' = [replies EXCEPT ![s] = <<>>]
    /\ resolved' = [resolved EXCEPT ![s] = Undefined]
    /\ escaped' = [escaped EXCEPT ![s] = FALSE]
    /\ parsed' = NotParsed
    /\ previous' = [previous EXCEPT ![s] = <<>>]
    /\ ui' = NotDelivered
    /\ UNCHANGED <<catalog, registry, listed, built>>

Next ==
    \E s \in Slots :
        \/ Throw(s)
        \/ FilterCatch(s)
        \/ Receive(s)
        \/ Finish(s)

Spec == Init /\ [][Next]_vars

(***************************************************************************)
(* The validator on its own: parseProblemDetails applied to candidate      *)
(* payloads, as a consumer applies it to what it receives.                 *)
(***************************************************************************)
Absent == Undefined

CandidateFields ==
    [type      : {Absent, Str("/catalog/internal"),
                  Str("https://errors.example.com/PRODUCT_NOT_FOUND"), Str("internal"), IntV(7)},
     title     : {Absent, Str("Internal Server Error"), IntV(7)},
     status    : {Absent, IntV(500), Str("500"), Float("404.5")},
     code      : {Absent, Str("INTERNAL_ERROR"), IntV(7)},
     requestId : {Absent, Str("req-1"), IntV(7)},
     detail    : {Absent, Str("An unexpected error occurred."), IntV(7)},
     context   : {Absent, Obj([productId |-> Str("abc")]), Str("ctx")},
     instance  : {Absent, Str("/products/abc")},
     retryable : {Absent, Bool(TRUE), Str("false")}]

\* The payloads a consumer can receive: objects with any of the fields missing or of the
\* wrong kind, and values that are no object at all.
Candidates == {Defined(Obj(f)) : f \in CandidateFields} \cup {Null, Str("Bad Gateway")}

\* The consumer receives a payload and parses it.
ParseCandidate ==
    /\ parsed = NotParsed
    /\ \E data \in Candidates :
           parsed' = [data |-> data, result |-> parseProblemDetails(data)]
    /\ UNCHANGED <<req, replies, resolved, escaped, catalog, registry, previous, ui, listed, built>>

\* The consumer is done with the payload.
Discard ==
    /\ parsed # NotParsed
    /\ parsed' = NotParsed
    /\ UNCHANGED <<req, replies, resolved, escaped, catalog, registry, previous, ui, listed, built>>

NextValidator == ParseCandidate \/ Discard

SpecValidator == Init /\ [][NextValidator]_vars

(***************************************************************************)
(* Properties                                                              *)
(***************************************************************************)
\* The filter has handled the request of slot s.
Handled(s) == req[s].phase \in {"replied", "received", "forwarded"}

\* The envelope the filter sent for slot s.
Envelope(s) == replies[s][1].body

\* The caller of slot s supplied a correlation id.
Supplied(s) == req[s].request.xRequestId.k = "string" /\ req[s].request.xRequestId.v # ""

\* x carries a code that is a non-empty string.
HasStringCode(x) ==
    /\ x.k = "object"
    /\ "code" \in DOMAIN x.v
    /\ x.v["code"].k = "string"
    /\ x.v["code"].v # ""

\* x is the exception a ValidationPipe raises: a BadRequestException whose response
\* carries a list of messages.
IsValidationFailure(x) ==
    /\ x.k = "object"
    /\ "name" \in DOMAIN x.v /\ x.v["name"] = Str("BadRequestException")
    /\ "response" \in DOMAIN x.v /\ x.v["response"].k = "object"
    /\ "message" \in DOMAIN x.v["response"].v
    /\ x.v["response"].v["message"].k = "array"

\* x is a BadRequestException whose response carries any message at all.
HasResponseMessage(x) ==
    /\ x.k = "object"
    /\ "name" \in DOMAIN x.v /\ x.v["name"] = Str("BadRequestException")
    /\ "response" \in DOMAIN x.v /\ x.v["response"].k = "object"
    /\ "message" \in DOMAIN x.v["response"].v
    /\ x.v["response"].v["message"] \notin {Str(""), Null}

\* The value v holds the text t somewhere inside it.
RECURSIVE Mentions(_, _)
Mentions(v, t) ==
    CASE v.k = "string" -> v.v = t
      [] v.k = "array"  -> \E i \in DOMAIN v.v : Mentions(v.v[i], t)
      [] v.k = "object" -> \E p \in DOMAIN v.v : Mentions(v.v[p], t)
      [] OTHER          -> FALSE

\* The texts of a failure that must stay inside the process: its message and its stack
\* (a thrown string is its own message).
InternalTexts(x) ==
    IF x.k = "string" THEN {x.v}
    ELSE IF x.k = "object"
         THEN {x.v[p].v : p \in {q \in DOMAIN x.v \cap {"message", "stack"} : x.v[q].k = "string"}}
    ELSE {}

\* C1: a failure whose code is a non-empty string, translated for a request that
\* supplies the correlation id r, yields exactly one envelope, whose code, detail and
\* context are the failure's code, message and context and whose requestId is r.
C1_DomainFieldsCopied ==
    \A s \in AllSlots :
        (Handled(s) /\ HasStringCode(req[s].exception) /\ Supplied(s)) =>
            /\ Len(replies[s]) = 1
            /\ Prop(Envelope(s), "code") = Prop(req[s].exception, "code")
            /\ Prop(Envelope(s), "detail") = Prop(req[s].exception, "message")
            /\ Prop(Envelope(s), "context") = Prop(req[s].exception, "context")
            /\ Prop(Envelope(s), "requestId") = req[s].request.xRequestId

C1_Witness ==
    \E s \in AllSlots :
        /\ Handled(s) /\ Supplied(s) /\ Len(replies[s]) = 1
        /\ Prop(req[s].exception, "code") = Str("PRODUCT_NOT_FOUND")
        /\ Prop(req[s].exception, "context") = Obj([productId |-> Str("abc")])
        /\ Prop(Envelope(s), "context") = Obj([productId |-> Str("abc")])
        /\ Prop(Envelope(s), "detail") = Str(MsgProductNotFound)

\* C2: a failure that exposes no code and is not a validation failure yields the
\* envelope INTERNAL_ERROR, status 500, with the fixed detail, and nothing of the
\* envelope holds the failure's message or stack text.
C2_UnrecognizedIsGeneric ==
    \A s \in AllSlots :
        (/\ Handled(s)
         /\ Prop(req[s].exception, "code") = Undefined
         /\ ~HasResponseMessage(req[s].exception)) =>
            /\ Len(replies[s]) = 1
            /\ Prop(Envelope(s), "code") = Str("INTERNAL_ERROR")
            /\ Prop(Envelope(s), "status") = IntV(500)
            /\ Prop(Envelope(s), "detail") = Str("An unexpected error occurred.")
            /\ \A t \in InternalTexts(req[s].exception) : ~Mentions(Envelope(s), t)

C2_Witness ==
    \E s \in AllSlots :
        /\ Handled(s) /\ Len(replies[s]) = 1
        /\ Prop(req[s].exception, "code") = Undefined
        /\ Prop(req[s].exception, "message") = Str(MsgInternals)
        /\ Prop(req[s].exception, "name") = Str("Error")
        /\ Prop(Envelope(s), "code") = Str("INTERNAL_ERROR")

\* C3 (as claimed): the catalog lookup returns the entry of a code that has one and the
\* INTERNAL_ERROR entry for every other string, and never throws.
C3_LookupTotal ==
    \A s \in AllSlots :
        (Handled(s) /\ HasStringCode(req[s].exception)) =>
            /\ ~escaped[s]
            /\ LET code == req[s].exception.v["code"].v
               IN  resolved[s] = IF code \in DOMAIN ErrorCatalog THEN ErrorCatalog[code]
                                 ELSE ErrorCatalog["INTERNAL_ERROR"]

\* C4: a failure whose non-empty string code has no catalog entry yields one envelope
\* with the failure's own code and the status, title and type of the INTERNAL_ERROR
\* entry (500, 'Internal Server Error', '/catalog/internal').
C4_UnknownCodeDegrades ==
    \A s \in AllSlots :
        (/\ Handled(s) /\ HasStringCode(req[s].exception)
         /\ req[s].exception.v["code"].v \notin DOMAIN ErrorCatalog) =>
            /\ ~escaped[s] /\ Len(replies[s]) = 1
            /\ Prop(Envelope(s), "code") = req[s].exception.v["code"]
            /\ Prop(Envelope(s), "status") = IntV(500)
            /\ Prop(Envelope(s), "title") = Str("Internal Server Error")
            /\ Prop(Envelope(s), "type") = Str("/catalog/internal")
            /\ Prop(Envelope(s), "status") = Prop(ErrorCatalog["INTERNAL_ERROR"], "status")
            /\ Prop(Envelope(s), "title") = Prop(ErrorCatalog["INTERNAL_ERROR"], "title")
            /\ Prop(Envelope(s), "type") = Prop(ErrorCatalog["INTERNAL_ERROR"], "type")

C4_Witness ==
    \E s \in AllSlots :
        /\ Handled(s) /\ Len(replies[s]) = 1
        /\ Prop(req[s].exception, "code") = Str("NOT_IN_REGISTRY")
        /\ Prop(Envelope(s), "code") = Str("NOT_IN_REGISTRY")
        /\ Prop(Envelope(s), "status") = IntV(500)

\* C5: whatever the failure value, the filter does not throw and replies with an
\* envelope that has type, title, status, code and requestId.
C5_TranslatorTotal ==
    \A s \in AllSlots :
        Handled(s) =>
            /\ ~escaped[s]
            /\ Len(replies[s]) >= 1
            /\ \A p \in {"type", "title", "status", "code", "requestId"} :
                   /\ p \in DOMAIN Envelope(s).v
                   /\ ~Nullish(Envelope(s).v[p])

C5_Witness ==
    \E s \in AllSlots :
        /\ Handled(s) /\ req[s].exception = Null /\ Len(replies[s]) = 1
        /\ Prop(Envelope(s), "code") = Str("INTERNAL_ERROR")

\* C6 (as claimed): every envelope the filter sends, on any path and for any failure,
\* is accepted by parseProblemDetails when the consumer receives it.
C6_EveryEnvelopeAccepted ==
    \A s \in AllSlots : req[s].phase = "received" => parsed.result.ok

\* C7: parseProblemDetails rejects every payload in which code, status, title, type or
\* requestId is missing, whatever the other fields hold.
C7_MissingRequiredRejected ==
    (/\ parsed # NotParsed
     /\ parsed.data.k = "object"
     /\ \E p \in {"code", "status", "title", "type", "requestId"} : p \notin DOMAIN parsed.data.v)
        => ~parsed.result.ok

C7_Witness ==
    /\ parsed.data.k = "object"
    /\ DOMAIN parsed.data.v = SchemaKeys \ {"requestId"}
    /\ ProblemDetailsSchema(Obj(parsed.data.v @@ [requestId |-> Str("req-1")]))
    /\ ~parsed.result.ok

\* C8: every envelope sent has a non-empty string requestId: the caller's correlation id
\* when the request supplies one, and an identifier from crypto.randomUUID() when the
\* header is absent or empty.
C8_RequestIdPresent ==
    \A s \in AllSlots :
        (Handled(s) /\ Len(replies[s]) >= 1) =>
            /\ Prop(Envelope(s), "requestId").k = "string"
            /\ Prop(Envelope(s), "requestId").v # ""
            /\ Supplied(s) => Prop(Envelope(s), "requestId") = req[s].request.xRequestId
            /\ ~Supplied(s) => Prop(Envelope(s), "requestId") \in UUIDs

C8_Witness ==
    \E s \in AllSlots :
        /\ Handled(s) /\ Len(replies[s]) = 1
        /\ req[s].request.xRequestId = Str("")
        /\ Prop(Envelope(s), "requestId") \in UUIDs

\* The path the filter took for x, read off the envelope's code and the failure.
OnValidationPath(s) ==
    /\ ~HasStringCode(req[s].exception)
    /\ Prop(Envelope(s), "code") = Str("VALIDATION_FAILED")

\* C9: on the domain, the validation and the unrecognized path alike, the envelope's
\* requestId is the correlation id of the request and its instance is the request's url.
C9_RequestIdAndInstance ==
    \A s \in AllSlots :
        (Handled(s) /\ Len(replies[s]) >= 1) =>
            /\ Supplied(s) => Prop(Envelope(s), "requestId") = req[s].request.xRequestId
            /\ Prop(Envelope(s), "instance") = req[s].request.url

C9_Witness ==
    \E s \in AllSlots :
        /\ Handled(s) /\ Len(replies[s]) = 1 /\ Supplied(s)
        /\ OnValidationPath(s)
        /\ Prop(Envelope(s), "instance") = Str("/clients")
        /\ Prop(Envelope(s), "requestId") = Str("req-1")

\* C10: a failure without a non-empty string code that is a validation failure yields
\* the envelope VALIDATION_FAILED, status 400, retryable false, whose context.fields is
\* the list of messages the validation failure reports.
C10_ValidationEnvelope ==
    \A s \in AllSlots :
        (/\ Handled(s)
         /\ ~HasStringCode(req[s].exception)
         /\ IsValidationFailure(req[s].exception)) =>
            /\ Len(replies[s]) = 1
            /\ Prop(Envelope(s), "code") = Str("VALIDATION_FAILED")
            /\ Prop(Envelope(s), "status") = IntV(400)
            /\ replies[s][1].status = IntV(400)
            /\ Prop(Envelope(s), "retryable") = Bool(FALSE)
            /\ Prop(Envelope(s), "context") =
                   Obj([fields |-> req[s].exception.v["response"].v["message"]])

C10_Witness ==
    \E s \in AllSlots :
        /\ Handled(s) /\ Len(replies[s]) = 1
        /\ ~HasStringCode(req[s].exception)
        /\ IsValidationFailure(req[s].exception)
        /\ Len(req[s].exception.v["response"].v["message"].v) = 2
        /\ Prop(Envelope(s), "context") =
               Obj([fields |-> Arr(<<Str("name must be a string"), Str("id must be a UUID")>>)])

(***************************************************************************)
(* The same failure translated twice                                       *)
(***************************************************************************)
\* The request of slot s is served again and fails with the same failure value: the
\* filter will translate it a second time, with the same header and url.
Rethrow(s) ==
    /\ req[s].phase = "replied"
    /\ previous[s] = <<>>
    /\ Len(replies[s]) > 0
    /\ previous' = [previous EXCEPT ![s] = replies[s]]
    /\ replies' = [replies EXCEPT ![s] = <<>>]
    /\ resolved' = [resolved EXCEPT ![s] = Undefined]
    /\ escaped' = [escaped EXCEPT ![s] = FALSE]
    /\ req' = [req EXCEPT ![s].phase = "thrown"]
    /\ UNCHANGED <<parsed, catalog, registry, ui, listed, built>>

NextRetry ==
    \E s \in Slots :
        \/ Throw(s)
        \/ FilterCatch(s)
        \/ Rethrow(s)
        \/ Finish(s)

SpecRetry == Init /\ [][NextRetry]_vars

\* The replies a and b agree on everything but the requestId of their envelopes.
SameButRequestId(a, b) ==
    /\ Len(a) = Len(b)
    /\ \A i \in 1..Len(a) :
           /\ a[i].status = b[i].status
           /\ DOMAIN a[i].body.v = DOMAIN b[i].body.v
           /\ \A p \in DOMAIN a[i].body.v \ {"requestId"} : a[i].body.v[p] = b[i].body.v[p]

\* C11: translating the same failure value twice with the same supplied correlation id
\* and the same instance yields equal envelopes; when no correlation id is supplied the
\* two envelopes differ at most in the generated requestId.
C11_TranslationDeterministic ==
    \A s \in AllSlots :
        (Handled(s) /\ previous[s] # <<>>) =>
            /\ Supplied(s) => replies[s] = previous[s]
            /\ SameButRequestId(replies[s], previous[s])

C11_Witness ==
    \E s \in AllSlots :
        /\ Handled(s) /\ previous[s] # <<>> /\ Supplied(s)
        /\ Len(replies[s]) = 1
        /\ replies[s] = previous[s]
        /\ Prop(Envelope(s), "code") = Str("PRODUCT_NOT_FOUND")

\* C12: each invocation of the filter calls httpAdapter.reply exactly once, whichever
\* branch classifies the failure: no reply before the filter runs, one after it.
C12_ExactlyOneReply ==
    \A s \in AllSlots :
        /\ req[s].phase \in {"idle", "thrown"} => Len(replies[s]) = 0
        /\ Handled(s) => Len(replies[s]) = 1

C12_Witness ==
    \E s \in AllSlots :
        /\ Handled(s) /\ Len(replies[s]) = 1
        /\ HasStringCode(req[s].exception)
        /\ HasResponseMessage(req[s].exception)

\* The fixed generic detail strings of the filter.
GenericDetails == {Str("One or more fields are invalid."), Str("An unexpected error occurred.")}

\* C13 (as claimed): the detail of every envelope is the message of a domain error raised
\* by business logic, or one of the fixed generic strings (or absent); the message of a
\* failure that is no domain error, even one with a string code, is never copied into it.
C13_DetailNeverInternal ==
    \A s \in AllSlots :
        (Handled(s) /\ Len(replies[s]) >= 1) =>
            /\ Prop(Envelope(s), "detail") \in
                   GenericDetails \cup {Undefined} \cup {Prop(e, "message") : e \in DomainErrors}
            /\ req[s].exception \notin DomainErrors =>
                   \A t \in InternalTexts(req[s].exception) \ {MsgProductNotFound} :
                       Prop(Envelope(s), "detail") # Str(t)

\* The catalog entry that classifies a code: its own, or the INTERNAL_ERROR entry.
EntryFor(code) ==
    IF code \in DOMAIN ErrorCatalog THEN ErrorCatalog[code] ELSE ErrorCatalog["INTERNAL_ERROR"]

\* C14: a ProductNotFoundError for product 'abc' translated with requestId 'req-1' yields
\* code PRODUCT_NOT_FOUND, status 404, title 'Product not found', type
\* '/catalog/products/not-found', detail 'Product not found.', context {productId: 'abc'},
\* requestId 'req-1', retryable false; on the domain path status, title and type are
\* those of the catalog entry for the failure's code.
C14_ProductNotFoundScenario ==
    \A s \in AllSlots :
        /\ (/\ Handled(s)
            /\ req[s].exception = ProductNotFoundError("abc")
            /\ req[s].request.xRequestId = Str("req-1")) =>
               /\ Len(replies[s]) = 1
               /\ replies[s][1].status = IntV(404)
               /\ Wire(Envelope(s)) =
                      Obj([code      |-> Str("PRODUCT_NOT_FOUND"),
                           status    |-> IntV(404),
                           title     |-> Str("Product not found"),
                           type      |-> Str("/catalog/products/not-found"),
                           detail    |-> Str("Product not found."),
                           context   |-> Obj([productId |-> Str("abc")]),
                           requestId |-> Str("req-1"),
                           instance  |-> req[s].request.url,
                           retryable |-> Bool(FALSE)])
        /\ (Handled(s) /\ HasStringCode(req[s].exception)) =>
               /\ Len(replies[s]) = 1
               /\ \A p \in {"status", "title", "type"} :
                      Prop(Envelope(s), p) = EntryFor(req[s].exception.v["code"].v).v[p]

C14_Witness ==
    \E s \in AllSlots :
        /\ Handled(s) /\ Len(replies[s]) = 1
        /\ req[s].exception = ProductNotFoundError("abc")
        /\ req[s].request.xRequestId = Str("req-1")
        /\ Prop(Envelope(s), "status") = IntV(404)

\* The codes the backend can produce: those of the shared registry and those its domain
\* errors carry.
ProducibleCodes ==
    {registry[k] : k \in DOMAIN registry} \cup {Prop(e, "code").v : e \in DomainErrors}

\* C15 (as claimed): every code the backend can produce has its own entry in the
\* ErrorCatalog, so a failure raised with it is classified by that entry, and the
\* INTERNAL_ERROR entry exists.
C15_CatalogComplete ==
    /\ "INTERNAL_ERROR" \in DOMAIN catalog
    /\ \A s \in AllSlots :
           (/\ Handled(s) /\ HasStringCode(req[s].exception)
            /\ req[s].exception.v["code"].v \in ProducibleCodes) =>
               /\ req[s].exception.v["code"].v \in DOMAIN catalog
               /\ resolved[s] = catalog[req[s].exception.v["code"].v]

(***************************************************************************)
(* The envelope in the hands of an in-process consumer                     *)
(***************************************************************************)
\* The envelope's context is the very object the failure holds: mapDomainError passes
\* e.context on (context: e.context) and toProblem passes p.context on, neither copies.
ContextShared(exception) ==
    /\ ~CatchThrows(exception)
    /\ IsCoded(exception)
    /\ Member(exception, "context").k = "object"

\* o[p] = value
Assign(o, p, value) == Obj((p :> value) @@ o.v)

\* A holder of the envelope of slot s writes a property of its context
\* (problem.context.productId = '***'). The write lands in the object the context
\* refers to, and so in every value that holds that object.
ConsumerEdit(s) ==
    /\ req[s].phase = "replied"
    /\ Len(replies[s]) = 1
    /\ Prop(replies[s][1].body, "context").k = "object"
    /\ Prop(Prop(replies[s][1].body, "context"), "productId") # Str("***")
    /\ LET edited == Assign(Prop(replies[s][1].body, "context"), "productId", Str("***"))
       IN  /\ replies' = [replies EXCEPT ![s][1].body = Assign(@, "context", edited)]
           /\ req' = [req EXCEPT ![s].exception =
                         IF ContextShared(@) THEN Assign(@, "context", edited) ELSE @]
    /\ UNCHANGED <<resolved, escaped, parsed, catalog, registry, previous, ui, listed, built>>

NextInProcess ==
    \E s \in Slots :
        \/ Throw(s)
        \/ FilterCatch(s)
        \/ ConsumerEdit(s)
        \/ Finish(s)

SpecInProcess == Init /\ [][NextInProcess]_vars

Translates(s) == req[s].phase = "thrown" /\ req'[s].phase = "replied"

\* C17: no lookup and no translation changes the ErrorCatalog or ErrorCodes, which keep
\* their initial contents; a translation changes nothing but the reply of its own
\* request: not the failure, not the request, not another request, not the consumer.
C17_CatalogReadOnly ==
    [][/\ catalog = ErrorCatalog /\ catalog' = ErrorCatalog
       /\ registry = ErrorCodes /\ registry' = ErrorCodes
       /\ \A s \in AllSlots :
              Translates(s) =>
                  /\ req'[s].exception = req[s].exception
                  /\ req'[s].request = req[s].request
                  /\ parsed' = parsed /\ ui' = ui /\ previous' = previous
                  /\ \A t \in AllSlots \ {s} :
                         /\ req'[t] = req[t] /\ replies'[t] = replies[t]
                         /\ resolved'[t] = resolved[t] /\ escaped'[t] = escaped[t]]_vars

C17_Witness ==
    \E s \in AllSlots :
        /\ Handled(s) /\ Len(replies[s]) = 1
        /\ Prop(req[s].exception, "code") = Str("NOT_IN_REGISTRY")
        /\ resolved[s] = ErrorCatalog["INTERNAL_ERROR"]
        /\ catalog = ErrorCatalog /\ registry = ErrorCodes

(***************************************************************************)
(* Several requests in flight: Nest runs catch once per failed request, on *)
(* the one filter instance, and the calls interleave.                      *)
(***************************************************************************)
\* The failures of the requests in flight: a domain error, a coded failure of another
\* component, a validation failure, a thrown string and a thrown null.
ConcurrentFailures ==
    DomainErrors
    \cup {Defined(Obj([name |-> Str("Error"), message |-> Str(MsgInternals),
                       stack |-> Str(StackText), code |-> Str("VALIDATION_FAILED")])),
          Defined(Obj([name |-> Str("BadRequestException"), message |-> Str("Bad Request"),
                       stack |-> Str(StackText),
                       response |-> Obj([message |-> Arr(<<Str("name must be a string")>>),
                                         error |-> Str("Bad Request"),
                                         statusCode |-> IntV(400)])])),
          Str("boom"), Null}

\* Callers that send no correlation id and callers that send their own.
ConcurrentRequests == [xRequestId : {Undefined, Str("req-1"), Str("req-2")}, url : Urls]

ThrowConcurrent(s) ==
    /\ req[s].phase = "idle"
    /\ \E exception \in ConcurrentFailures, request \in ConcurrentRequests :
           req' = [req EXCEPT ![s] = [phase |-> "thrown", exception |-> exception,
                                      request |-> request]]
    /\ UNCHANGED <<replies, resolved, escaped, parsed, catalog, registry, previous, ui, listed, built>>

NextConcurrent ==
    \E s \in AllSlots :
        \/ ThrowConcurrent(s)
        \/ FilterCatch(s)
        \/ Finish(s)

SpecConcurrent == Init /\ [][NextConcurrent]_vars

\* What catch replies when it handles the failure and the request of slot s with no other
\* request in flight, for each value randomUUID can return.
AloneReplies(s) == {catch(req[s].exception, req[s].request, uuid) : uuid \in UUIDs}

\* C18: with several failed requests in flight, in any interleaving, the reply to each is
\* one that translating it alone gives; its requestId is its own caller's when the caller
\* sent one, its instance is its own url, and its code and context are those of its own
\* failure when that failure is a domain error.
C18_NoCrossTalk ==
    \A s \in AllSlots :
        Handled(s) =>
            /\ replies[s] \in AloneReplies(s)
            /\ Len(replies[s]) = 1 =>
                   /\ Supplied(s) => Prop(Envelope(s), "requestId") = req[s].request.xRequestId
                   /\ Prop(Envelope(s), "instance") = req[s].request.url
                   /\ req[s].exception \in DomainErrors =>
                          /\ Prop(Envelope(s), "code") = Prop(req[s].exception, "code")
                          /\ Prop(Envelope(s), "context") = Prop(req[s].exception, "context")

C18_Witness ==
    /\ Handled("r1") /\ Handled("r2")
    /\ req["r1"].exception \in DomainErrors
    /\ req["r2"].exception = Str("boom")
    /\ req["r1"].request = [xRequestId |-> Str("req-1"), url |-> Str("/products/abc")]
    /\ req["r2"].request = [xRequestId |-> Str("req-2"), url |-> Str("/clients")]
    /\ Prop(Envelope("r1"), "requestId") = Str("req-1")
    /\ Prop(Envelope("r2"), "requestId") = Str("req-2")
    /\ Prop(Envelope("r1"), "code") = Str("PRODUCT_NOT_FOUND")
    /\ Prop(Envelope("r2"), "code") = Str("INTERNAL_ERROR")

\* A required field of the candidate is present with the wrong primitive kind.
WrongKind(data) ==
    /\ data.k = "object"
    /\ \/ \E f \in {"type", "title", "code", "requestId"} \cap DOMAIN data.v :
              data.v[f].k # "string"
       \/ "status" \in DOMAIN data.v /\ data.v["status"].k # "int"

\* C19: parseProblemDetails throws for every candidate in which type, title, code or
\* requestId is not a string, or status is not an integer.
C19_WrongKindRejected ==
    (parsed # NotParsed /\ WrongKind(parsed.data)) =>
        (~parsed.result.ok /\ parsed.result.value = Str("ZodError"))

C19_Witness ==
    /\ parsed # NotParsed
    /\ parsed.data.k = "object"
    /\ Prop(parsed.data, "status") = Float("404.5")
    /\ \A f \in {"type", "title", "code", "requestId"} : Prop(parsed.data, f).k = "string"
    /\ Prop(parsed.data, "type") = Str("https://errors.example.com/PRODUCT_NOT_FOUND")
    /\ ~parsed.result.ok

(***************************************************************************)
(* The BFF between the backend and the UI: it parses the upstream payload, *)
(* then passes the problem through to the UI.                              *)
(***************************************************************************)
\* The BFF acts on what it received from slot s: the parsed problem goes to the UI; when
\* parseProblemDetails threw, the pass-through is never reached and the UI gets no
\* upstream problem.
Forward(s) ==
    /\ req[s].phase = "received"
    /\ ui' = IF parsed.result.ok
             THEN [kind |-> "problem", envelope |-> parsed.result.value]
             ELSE [kind |-> "rejected", envelope |-> Undefined]
    /\ req' = [req EXCEPT ![s].phase = "forwarded"]
    /\ UNCHANGED <<replies, resolved, escaped, parsed, catalog, registry, previous, listed, built>>

NextConsumer ==
    \E s \in Slots :
        \/ Throw(s)
        \/ FilterCatch(s)
        \/ Receive(s)
        \/ Forward(s)
        \/ Finish(s)

SpecConsumer == Init /\ [][NextConsumer]_vars

\* C20: the BFF gives the UI nothing before it has validated the upstream payload, and a
\* payload the validator rejects never reaches the UI as a classified problem: what the UI
\* gets as a problem is a payload the schema accepts, as the validator returned it.
C20_ValidatedBeforeForwarded ==
    /\ ui # NotDelivered => parsed # NotParsed
    /\ ui.kind = "problem" =>
           /\ ProblemDetailsSchema(parsed.data)
           /\ parsed.result.ok
           /\ ui.envelope = parsed.result.value
    /\ (parsed # NotParsed /\ ~ProblemDetailsSchema(parsed.data)) => ui.kind # "problem"

C20_Witness ==
    \E s \in Slots :
        /\ req[s].phase = "forwarded"
        /\ parsed.data.k = "object"
        /\ Prop(parsed.data, "context") = Null
        /\ ~parsed.result.ok
        /\ ui.kind = "rejected"

(***************************************************************************)
(* The filter of the controller guide:                                     *)
(* apps/backend/src/http/problem-details.filter.ts (sketch)                *)
(***************************************************************************)
\* new <a subclass of DomainError>(message, code, context)
DomainError(message, code, context) ==
    Defined(Obj([name |-> Str("Error"), message |-> Str(message), stack |-> Str(StackText),
                 code |-> Str(code), context |-> context]))

\* The domain errors of the services, one or more per registered code.
GuideDomainErrors ==
    {DomainError(m, ErrorCodes[k], x) :
        m \in {MsgProductNotFound, "Invalid credentials."},
        k \in DOMAIN ErrorCodes,
        x \in {Undefined, Obj([productId |-> Str("abc")])}}

\* What mapDomainErrorToStatus(err.code) can return: the guide does not define it.
DomainErrorStatuses == {IntV(400), IntV(401), IntV(404), IntV(500)}

\* ProblemDetailsFilter.catch(err, host): one reply, res.status(status).json({...}).
ProblemDetailsFilter_catch(err, request, status) ==
    <<Reply(Obj([type     |-> Str("https://errors.example.com/" \o Member(err, "code").v),
                 title    |-> Member(err, "message"),
                 status   |-> status,
                 detail   |-> Member(err, "detail"),
                 instance |-> request.url]),
            status)>>

\* A service throws a domain error while serving a request.
ThrowDomain(s) ==
    /\ req[s].phase = "idle"
    /\ \E err \in GuideDomainErrors, request \in Requests :
           req' = [req EXCEPT ![s] = [phase |-> "thrown", exception |-> err,
                                      request |-> request]]
    /\ UNCHANGED <<replies, resolved, escaped, parsed, catalog, registry, previous, ui, listed, built>>

\* Nest hands the domain error to ProblemDetailsFilter.catch (@Catch(DomainError)).
ProblemDetailsFilterCatch(s) ==
    /\ req[s].phase = "thrown"
    /\ \E status \in DomainErrorStatuses :
           replies' = [replies EXCEPT ![s] =
                          ProblemDetailsFilter_catch(req[s].exception, req[s].request, status)]
    /\ req' = [req EXCEPT ![s].phase = "replied"]
    /\ UNCHANGED <<resolved, escaped, parsed, catalog, registry, previous, ui, listed, built>>

NextControllerGuide ==
    \E s \in Slots :
        \/ ThrowDomain(s)
        \/ ProblemDetailsFilterCatch(s)
        \/ Receive(s)
        \/ Finish(s)

SpecControllerGuide == Init /\ [][NextControllerGuide]_vars

\* C21: every payload a boundary filter emits has a requestId and a code, the payload of
\* the controller guide's ProblemDetailsFilter too, and the shared validator accepts it.
C21_GuidePayloadTraceable ==
    \A s \in Slots :
        (Handled(s) /\ Len(replies[s]) > 0) =>
            /\ "requestId" \in DOMAIN Wire(Envelope(s)).v
            /\ "code" \in DOMAIN Wire(Envelope(s)).v
            /\ ProblemDetailsSchema(Wire(Envelope(s)))

\* C22: the domain step is tried before the validation step: a failure that exposes a
\* non-empty string code and also has the shape of a validation exception is translated
\* on the domain path, with its own code, message and context and the catalog metadata
\* of its code, and is VALIDATION_FAILED only if that is its own code.
C22_DomainBeforeValidation ==
    \A s \in AllSlots :
        (/\ Handled(s)
         /\ HasStringCode(req[s].exception)
         /\ IsValidationFailure(req[s].exception)) =>
            /\ Len(replies[s]) = 1
            /\ Prop(Envelope(s), "code") = Prop(req[s].exception, "code")
            /\ Prop(Envelope(s), "detail") = Prop(req[s].exception, "message")
            /\ Prop(Envelope(s), "context") = Prop(req[s].exception, "context")
            /\ \A p \in {"status", "title", "type"} :
                   Prop(Envelope(s), p) = EntryFor(req[s].exception.v["code"].v).v[p]
            /\ replies[s][1].status = EntryFor(req[s].exception.v["code"].v).v["status"]
            /\ Prop(req[s].exception, "code") # Str("VALIDATION_FAILED") =>
                   Prop(Envelope(s), "code") # Str("VALIDATION_FAILED")

C22_Witness ==
    \E s \in AllSlots :
        /\ Handled(s) /\ Len(replies[s]) = 1
        /\ IsValidationFailure(req[s].exception)
        /\ Len(req[s].exception.v["response"].v["message"].v) = 1
        /\ Prop(req[s].exception, "code") = Str("PRODUCT_NOT_FOUND")
        /\ Prop(Envelope(s), "code") = Str("PRODUCT_NOT_FOUND")
        /\ replies[s][1].status = IntV(404)

\* x carries a code that is no non-empty string: an empty string, a number, an object, null.
HasUnusableCode(x) ==
    /\ x.k = "object"
    /\ "code" \in DOMAIN x.v
    /\ ~HasStringCode(x)

\* C23: a failure whose code is an empty string or no string at all is not a domain error:
\* unless the validation step takes it, it yields the generic INTERNAL_ERROR envelope,
\* status 500, and no field of the envelope holds its code or its message.
C23_UnusableCodeIsGeneric ==
    \A s \in AllSlots :
        (/\ Handled(s)
         /\ HasUnusableCode(req[s].exception)
         /\ ~HasResponseMessage(req[s].exception)) =>
            /\ Len(replies[s]) = 1
            /\ replies[s][1].status = IntV(500)
            /\ Envelope(s) = InternalProblem(Prop(Envelope(s), "requestId"),
                                             req[s].request.url)
            /\ Prop(Envelope(s), "code") = Str("INTERNAL_ERROR")
            /\ \A p \in DOMAIN Envelope(s).v : Envelope(s).v[p] # req[s].exception.v["code"]
            /\ \A t \in InternalTexts(req[s].exception) : ~Mentions(Envelope(s), t)

C23_Witness ==
    \E s \in AllSlots :
        /\ Handled(s) /\ Len(replies[s]) = 1
        /\ HasUnusableCode(req[s].exception)
        /\ req[s].exception.v["code"] \in {IntV(23505), Str("")}
        /\ Prop(req[s].exception, "message") = Str(MsgInternals)
        /\ Prop(req[s].exception, "name") = Str("Error")
        /\ Prop(Envelope(s), "code") = Str("INTERNAL_ERROR")

\* x has the name of a validation exception but no response message.
NamedWithoutFields(x) ==
    /\ x.k \in {"object", "function"}
    /\ Prop(x, "name") = Str("BadRequestException")
    /\ ~Truthy(OptMember(Prop(x, "response"), "message"))

\* The generic classification: INTERNAL_ERROR with status 500.
IsGenericReply(s) ==
    /\ Len(replies[s]) = 1
    /\ replies[s][1].status = IntV(500)
    /\ Prop(Envelope(s), "status") = IntV(500)
    /\ Prop(Envelope(s), "code") = Str("INTERNAL_ERROR")
    /\ Prop(Envelope(s), "detail") = Str("An unexpected error occurred.")

\* C24 (as claimed): a failure with the name of a validation exception and no response
\* message is never VALIDATION_FAILED; it yields the generic INTERNAL_ERROR envelope with
\* status 500.
C24_NamedWithoutFieldsIsGeneric ==
    \A s \in AllSlots :
        (Handled(s) /\ NamedWithoutFields(req[s].exception)) => IsGenericReply(s)

\* C24 (amended): a failure with the name of a validation exception and no response
\* message, which exposes no non-empty string code, yields the generic INTERNAL_ERROR
\* envelope with status 500.
C24_UncodedNamedWithoutFieldsIsGeneric ==
    \A s \in AllSlots :
        (/\ Handled(s)
         /\ NamedWithoutFields(req[s].exception)
         /\ ~HasStringCode(req[s].exception)) => IsGenericReply(s)

C24_Witness ==
    \E s \in AllSlots :
        /\ Handled(s)
        /\ NamedWithoutFields(req[s].exception)
        /\ ~HasStringCode(req[s].exception)
        /\ Prop(Prop(req[s].exception, "response"), "message") = Str("")
        /\ IsGenericReply(s)

\* C25: on every path, the transport status of each reply of the filter is the status
\* field of the envelope in its body.
C25_TransportStatusIsEnvelopeStatus ==
    \A s \in AllSlots :
        Handled(s) =>
            \A i \in 1..Len(replies[s]) :
                /\ replies[s][i].status.k = "int"
                /\ replies[s][i].status = Prop(replies[s][i].body, "status")

C25_Witness ==
    \E s \in AllSlots :
        /\ Handled(s) /\ Len(replies[s]) = 1
        /\ HasStringCode(req[s].exception)
        /\ replies[s][1].status = IntV(404)
        /\ Prop(Envelope(s), "status") = IntV(404)

\* The fields that classify an envelope.
Classification == {"status", "title", "type"}

\* The filter took its last branch for slot s.
OnUnrecognizedPath(s) ==
    /\ ~HasStringCode(req[s].exception)
    /\ Prop(Envelope(s), "code") = Str("INTERNAL_ERROR")

\* C26: the envelopes of the validation path and of the unrecognized path have the status,
\* title and type of the catalog entries for VALIDATION_FAILED and INTERNAL_ERROR, and a
\* domain error raised with one of those two codes gets the status, title and type of the
\* literal of the corresponding path.
C26_FixedPathsMatchCatalog ==
    \A s \in AllSlots :
        (Handled(s) /\ Len(replies[s]) = 1) =>
            LET e   == req[s].exception
                rid == Prop(Envelope(s), "requestId")
                url == req[s].request.url
            IN  /\ OnValidationPath(s) =>
                       \A p \in Classification :
                           Envelope(s).v[p] = ErrorCatalog["VALIDATION_FAILED"].v[p]
                /\ OnUnrecognizedPath(s) =>
                       \A p \in Classification :
                           Envelope(s).v[p] = ErrorCatalog["INTERNAL_ERROR"].v[p]
                /\ Prop(e, "code") = Str("VALIDATION_FAILED") =>
                       \A p \in Classification :
                           Envelope(s).v[p] = ValidationProblem(e, rid, url).v[p]
                /\ Prop(e, "code") = Str("INTERNAL_ERROR") =>
                       \A p \in Classification :
                           Envelope(s).v[p] = InternalProblem(rid, url).v[p]

C26_Witness ==
    \E s \in AllSlots :
        /\ Handled(s) /\ Len(replies[s]) = 1
        /\ Prop(req[s].exception, "code") = Str("VALIDATION_FAILED")
        /\ Prop(req[s].exception, "name") = Str("Error")
        /\ Prop(req[s].exception, "response") = Undefined
        /\ Prop(Envelope(s), "status") = IntV(400)
        /\ Prop(Envelope(s), "title") = Str("Invalid input")
        /\ Prop(Envelope(s), "type") = Str("/catalog/validation/failed")

\* The retryable value an entry defines, false when it defines none.
RetryableOf(entry) ==
    IF entry.k = "object" /\ "retryable" \in DOMAIN entry.v
    THEN entry.v["retryable"] ELSE Bool(FALSE)

\* C27: every envelope the filter emits has a boolean retryable: on the domain path the
\* retryable of the resolved catalog entry if it defines one and false otherwise, on the
\* validation and the unrecognized path false.
C27_RetryableBoolean ==
    \A s \in AllSlots :
        (Handled(s) /\ Len(replies[s]) = 1) =>
            /\ "retryable" \in DOMAIN Wire(Envelope(s)).v
            /\ Prop(Envelope(s), "retryable").k = "boolean"
            /\ HasStringCode(req[s].exception) =>
                   Prop(Envelope(s), "retryable") = RetryableOf(resolved[s])
            /\ ~HasStringCode(req[s].exception) =>
                   Prop(Envelope(s), "retryable") = Bool(FALSE)

C27_Witness ==
    \E s \in AllSlots :
        /\ Handled(s) /\ Len(replies[s]) = 1
        /\ Prop(req[s].exception, "code") = Str("PRODUCT_NOT_FOUND")
        /\ resolved[s] = ErrorCatalog["PRODUCT_NOT_FOUND"]
        /\ Prop(Envelope(s), "retryable") = Bool(FALSE)

\* The field f of data is absent or of kind k.
AbsentOrKind(data, f, k) == f \notin DOMAIN data.v \/ data.v[f].k = k

\* The required fields of data are present and every field has the right primitive kind.
RightKinds(data) ==
    /\ data.k = "object"
    /\ \A f \in {"type", "title", "code", "requestId"} :
           f \in DOMAIN data.v /\ data.v[f].k = "string"
    /\ "status" \in DOMAIN data.v /\ data.v["status"].k = "int"
    /\ AbsentOrKind(data, "detail", "string")
    /\ AbsentOrKind(data, "context", "object")
    /\ AbsentOrKind(data, "instance", "string")
    /\ AbsentOrKind(data, "retryable", "boolean")

\* C28 (as claimed): the validator accepts a candidate exactly when its required fields
\* are present and every field has the right primitive kind, whatever its type string holds.
C28_AcceptsExactlyRightKinds ==
    parsed # NotParsed => (parsed.result.ok <=> RightKinds(parsed.data))

(***************************************************************************)
(* apps/backend/src/client: ClientEntity and ClientController.listClients  *)
(***************************************************************************)
\* The longest list of clients the service returns.
MaxClients == 2

\* A Date
DateV(iso) == [k |-> "date", v |-> iso]

\* A row of the clients table as TypeORM loads it.
ClientEntity(id, name, rowVersion) ==
    Obj([id         |-> Str(id),
         name       |-> Str(name),
         createdAt  |-> DateV("2025-01-01T00:00:00.000Z"),
         updatedAt  |-> DateV("2025-06-01T00:00:00.000Z"),
         deletedAt  |-> Null,
         rowVersion |-> IntV(rowVersion)])

ClientIds == {"a1b2c3d4-0001", "a1b2c3d4-0002", "a1b2c3d4-0003"}
ClientNames == {"Acme Corporation", "Globex", "Initech"}
RowVersions == {1, 2}

ClientEntities ==
    {ClientEntity(id, name, v) : id \in ClientIds, name \in ClientNames, v \in RowVersions}

\* What clientService.listClients() can return: rows in any order, no id twice.
ClientLists ==
    {q \in UNION {[1..n -> ClientEntities] : n \in 0..MaxClients} :
        \A i, j \in DOMAIN q : i # j => q[i].v["id"] # q[j].v["id"]}

\* Mutant of listClients: the entities are returned as they are.
listClients_entities(clientEntities) == Obj([clients |-> clientEntities])

\* ClientController.listClients, given what the service returned:
\* clientEntities.map(client => ({ id: client.id, name: client.name })), then { clients }
listClients(clientEntities) ==
    Obj([clients |->
            Arr([i \in DOMAIN clientEntities.v |->
                    Obj([id   |-> Member(clientEntities.v[i], "id"),
                         name |-> Member(clientEntities.v[i], "name")])])])

\* GET /clients
ListClients ==
    /\ listed = NotListed
    /\ \E q \in ClientLists :
           listed' = [clientEntities |-> Arr(q), response |-> listClients(Arr(q))]
    /\ UNCHANGED <<req, replies, resolved, escaped, parsed, catalog, registry, previous, ui, built>>

\* The response has been sent.
ListSent ==
    /\ listed # NotListed
    /\ listed' = NotListed
    /\ UNCHANGED <<req, replies, resolved, escaped, parsed, catalog, registry, previous, ui, built>>

NextClients == ListClients \/ ListSent

SpecClients == Init /\ [][NextClients]_vars

\* C29: the response of list-clients has one item per entity the service returned, in the
\* same order, and each item holds the id and the name of its entity and nothing else.
C29_ListClientsProjection ==
    listed # NotListed =>
        LET entities == listed.clientEntities.v
            items    == Prop(listed.response, "clients")
        IN  /\ DOMAIN listed.response.v = {"clients"}
            /\ items.k = "array"
            /\ Len(items.v) = Len(entities)
            /\ \A i \in 1..Len(entities) :
                   /\ items.v[i].k = "object"
                   /\ DOMAIN items.v[i].v = {"id", "name"}
                   /\ items.v[i].v["id"] = entities[i].v["id"]
                   /\ items.v[i].v["name"] = entities[i].v["name"]

C29_Witness ==
    /\ listed # NotListed
    /\ listed.clientEntities =
           Arr(<<ClientEntity("a1b2c3d4-0002", "Globex", 2),
                 ClientEntity("a1b2c3d4-0001", "Acme Corporation", 1)>>)
    /\ listed.response =
           Obj([clients |->
                   Arr(<<Obj([id |-> Str("a1b2c3d4-0002"), name |-> Str("Globex")]),
                         Obj([id |-> Str("a1b2c3d4-0001"), name |-> Str("Acme Corporation")])>>)])

(***************************************************************************)
(* toProblem on its own, applied to partial envelopes                      *)
(***************************************************************************)
\* Partial<ProblemDetails>: each field absent or a value of its type.
PartialFields ==
    [type      : {Absent, Str("/catalog/products/not-found")},
     title     : {Absent, Str("Product not found"), Str("")},
     status    : {Absent, IntV(404)},
     code      : {Absent, Str("PRODUCT_NOT_FOUND")},
     detail    : {Absent, Str(MsgProductNotFound)},
     context   : {Absent, Obj([productId |-> Str("abc")])},
     instance  : {Absent, Str("/products/abc")},
     requestId : {Absent, Str("req-1")},
     retryable : {Absent, Bool(TRUE), Bool(FALSE)}]

Partials == {Defined(Obj(f)) : f \in PartialFields}

\* A caller builds a problem from a partial envelope, and a second one from the result.
BuildProblem ==
    /\ built = NotBuilt
    /\ \E p \in Partials :
           built' = [p |-> p, problem |-> toProblem(p), again |-> toProblem(toProblem(p))]
    /\ UNCHANGED <<req, replies, resolved, escaped, parsed, catalog, registry, previous, ui, listed>>

\* The caller is done with the problem.
DropProblem ==
    /\ built # NotBuilt
    /\ built' = NotBuilt
    /\ UNCHANGED <<req, replies, resolved, escaped, parsed, catalog, registry, previous, ui, listed>>

NextToProblem == BuildProblem \/ DropProblem

SpecToProblem == Init /\ [][NextToProblem]_vars

\* The INTERNAL_ERROR defaults of the required fields.
RequiredDefaults ==
    [type      |-> Str("/catalog/internal"),
     title     |-> Str("Internal Server Error"),
     status    |-> IntV(500),
     code      |-> Str("INTERNAL_ERROR"),
     requestId |-> Str("unknown"),
     retryable |-> Bool(FALSE)]

\* C30: toProblem keeps every field its argument supplies, gives every missing required
\* field its INTERNAL_ERROR default, leaves every other missing field undefined, and
\* applied to its own result returns that result.
C30_ToProblemDefaultsIdempotent ==
    built # NotBuilt =>
        /\ \A f \in DOMAIN built.p.v : Prop(built.problem, f) = built.p.v[f]
        /\ \A f \in DOMAIN RequiredDefaults \ DOMAIN built.p.v :
               Prop(built.problem, f) = RequiredDefaults[f]
        /\ \A f \in {"detail", "context", "instance"} \ DOMAIN built.p.v :
               Prop(built.problem, f) = Undefined
        /\ DOMAIN built.problem.v = SchemaKeys
        /\ built.again = built.problem

C30_Witness ==
    /\ built # NotBuilt
    /\ built.p = Obj([code |-> Str("PRODUCT_NOT_FOUND"), title |-> Str(""),
                      retryable |-> Bool(TRUE)])
    /\ Wire(built.problem) =
           Obj([type |-> Str("/catalog/internal"), title |-> Str(""), status |-> IntV(500),
                code |-> Str("PRODUCT_NOT_FOUND"), requestId |-> Str("unknown"),
                retryable |-> Bool(TRUE)])
    /\ built.again = built.problem

====
